---------------------------- MODULE Spec2Model ----------------------------
(***************************************************************************)
(* HTTP log monitor (src/log_monitor.py): the sliding-window traffic       *)
(* monitor with its out-of-order (OOO) buffer, the periodic statistics,    *)
(* and the line-feeding pipeline around them.                              *)
(*                                                                         *)
(* An object of the program is a record; a method is an operator from the  *)
(* object (and the arguments) to the object after the call.  A Python      *)
(* exception leaves the object as it was when raised, with error = TRUE.   *)
(*                                                                         *)
(* Configurations: traffic_mon_size >= 1, critical_rate >= 1,              *)
(* ooo_buffer_size >= 0, statis_period >= 1; timestamps are naturals.      *)
(* The first line fed is the header.  KeyboardInterrupt is taken between   *)
(* two lines.                                                              *)
(***************************************************************************)
EXTENDS Integers, Sequences, FiniteSets, TLC

(* ------------------------------ bounds --------------------------------- *)
\* timestamps fed to the monitor are 0..MaxTs
MaxTs == 4
\* number of TrafficMonitor.add calls in one run of SpecMon
MaxHits == 6
\* the constructor's traffic_mon_size ranges over 1..MaxWindow
MaxWindow == 3
\* the constructor's critical_rate ranges over 1..MaxRate
MaxRate == 1
\* the constructor's ooo_buffer_size ranges over 0..MaxOoo
MaxOoo == 2
\* the constructor's statis_period ranges over 1..MaxPeriod
MaxPeriod == 2
\* number of Statistics.add calls in one run of SpecStat
MaxAdds == 5
\* number of data lines fed in one run of Spec
MaxLines == 4
\* the dates of the data lines of Spec, and the timestamps of SpecStat, are 0..MaxLineTs
MaxLineTs == 2
\* in Spec the constructor's traffic_mon_size ranges over 1..MaxLineWindow
MaxLineWindow == 2
\* number of TrafficMonitor.add calls in one run of SpecLate
MaxLateAdds == 9
\* the constructor's traffic_mon_size in SpecLate
LateWindow == 4

Timestamps == 0..MaxTs

\* the timestamps of SpecLate, whose runs are longer
LateTimestamps == 0..(MaxTs + 2)

(* ------------------------------ helpers -------------------------------- *)
Last(s) == s[Len(s)]

Range(s) == {s[i] : i \in DOMAIN s}

RECURSIVE SumSeq(_)
\* Python's sum() of a list
SumSeq(s) == IF s = <<>> THEN 0 ELSE Head(s) + SumSeq(Tail(s))

\* bisect.insort of a value absent from the sorted list
insort(list, ts) ==
    SelectSeq(list, LAMBDA x : x <= ts) \o <<ts>> \o SelectSeq(list, LAMBDA x : x > ts)

\* list.index(ts) of a member, 1-based
index(list, ts) == CHOOSE i \in DOMAIN list : list[i] = ts /\ \A j \in 1..(i - 1) : list[j] # ts

\* dict.pop(key)
dict_pop(d, key) == [k \in (DOMAIN d) \ {key} |-> d[k]]

\* deque.append had the deque been built without maxlen
deque_append_no_maxlen(buf, item) == Append(buf, item)

\* deque.append on a deque of maxlen Len(buf): the oldest element drops out
deque_append(buf, item) == IF Len(buf) = 0 THEN buf ELSE Append(Tail(buf), item)

(* --------------------------- TrafficMonitor ---------------------------- *)
\* TrafficMonitor.__init__; alerts records the calls of alert_handler, evals
\* the calls of check_hits made by the most recent add
TrafficMonitor_init(window_size_sec, critical_rate, ooo_buffer_size) ==
    [w_size          |-> window_size_sec,
     ts_list         |-> <<>>,
     d               |-> <<>>,
     hits            |-> 0,
     max             |-> critical_rate * window_size_sec,
     warn            |-> FALSE,
     ooo_buffer_size |-> ooo_buffer_size,
     ooo_buffer      |-> [i \in 1..ooo_buffer_size |-> <<0, 0>>],
     alerts          |-> <<>>,
     evals           |-> <<>>,
     error           |-> FALSE]

window_size(m) == Last(m.ts_list) - m.ts_list[1]

\* alert_handler(raised, ts, hits)
alert(raised, ts, hits) == [raised |-> raised, ts |-> ts, hits |-> hits]

\* check_hits raising at hits >= max
check_hits_raise_at_max(m, ts, hits) ==
    IF ~m.warn /\ hits >= m.max
    THEN [m EXCEPT !.warn = TRUE, !.alerts = Append(@, alert(TRUE, ts, hits))]
    ELSE m

\* the first if of check_hits
check_hits_raise(m, ts, hits) ==
    IF ~m.warn /\ hits > m.max
    THEN [m EXCEPT !.warn = TRUE, !.alerts = Append(@, alert(TRUE, ts, hits))]
    ELSE m

\* check_hits clearing only at hits < max
check_hits_clear_below(m, ts, hits) ==
    IF m.warn /\ hits < m.max
    THEN [m EXCEPT !.warn = FALSE, !.alerts = Append(@, alert(FALSE, ts, hits))]
    ELSE m

\* the second if of check_hits
check_hits_clear(m, ts, hits) ==
    IF m.warn /\ hits <= m.max
    THEN [m EXCEPT !.warn = FALSE, !.alerts = Append(@, alert(FALSE, ts, hits))]
    ELSE m

\* check_hits with the threshold itself on the armed side
check_hits_at_max(m, ts, hits) ==
    [check_hits_clear_below(check_hits_raise_at_max(m, ts, hits), ts, hits)
        EXCEPT !.evals = Append(@, [ts |-> ts, hits |-> hits])]

check_hits(m, ts, hits) ==
    [check_hits_clear(check_hits_raise(m, ts, hits), ts, hits)
        EXCEPT !.evals = Append(@, [ts |-> ts, hits |-> hits])]

\* the loop body without "self._hits -= ..."
evict_one_keep_hits(m) ==
    LET first == m.ts_list[1] IN
    [m EXCEPT !.ooo_buffer = deque_append(@, <<first, m.d[first]>>),
              !.d          = dict_pop(@, first),
              !.ts_list    = Tail(@)]

\* the loop body without "self._d.pop(first_ts)"
evict_one_keep_bucket(m) ==
    LET first == m.ts_list[1] IN
    [m EXCEPT !.ooo_buffer = deque_append(@, <<first, m.d[first]>>),
              !.hits       = @ - m.d[first],
              !.ts_list    = Tail(@)]

\* one turn of the while loop of check: the earliest bucket moves to the OOO buffer
evict_one(m) ==
    LET first == m.ts_list[1] IN
    [m EXCEPT !.ooo_buffer = deque_append(@, <<first, m.d[first]>>),
              !.hits       = @ - m.d[first],
              !.d          = dict_pop(@, first),
              !.ts_list    = Tail(@)]

RECURSIVE evict_loose(_)
\* the while loop with the condition window_size() > self._w_size
evict_loose(m) == IF window_size(m) > m.w_size THEN evict_loose(evict_one(m)) ELSE m

RECURSIVE evict(_)
\* the while loop of check
evict(m) == IF window_size(m) > m.w_size - 1 THEN evict(evict_one(m)) ELSE m

\* disorder_check summing the OOO buffer from i + 1
disorder_check_skip_first(m, ts) ==
    LET found == {i \in 1..m.ooo_buffer_size :
                    /\ 0 < ts - m.ooo_buffer[i][1]
                    /\ ts - m.ooo_buffer[i][1] < m.w_size}
    IN  IF found = {} THEN m
        ELSE LET i == CHOOSE x \in found : \A y \in found : x <= y
                 pos == index(m.ts_list, ts)
                 hits_after_ts ==
                     SumSeq([k \in 1..(Len(m.ts_list) - pos) |-> m.d[m.ts_list[pos + k]]])
                 hits_ooo_buffer ==
                     SumSeq([k \in 1..(m.ooo_buffer_size - i) |-> m.ooo_buffer[i + k][2]])
                 hits == m.hits - hits_after_ts + hits_ooo_buffer
             IN  check_hits(m, ts, hits)

\* disorder_check taking the bucket of ts itself for a later one
disorder_check_after_from_ts(m, ts) ==
    LET found == {i \in 1..m.ooo_buffer_size :
                    /\ 0 < ts - m.ooo_buffer[i][1]
                    /\ ts - m.ooo_buffer[i][1] < m.w_size}
    IN  IF found = {} THEN m
        ELSE LET i == CHOOSE x \in found : \A y \in found : x <= y
                 pos == index(m.ts_list, ts)
                 hits_after_ts ==
                     SumSeq([k \in 1..(Len(m.ts_list) - pos + 1) |-> m.d[m.ts_list[pos + k - 1]]])
                 hits_ooo_buffer ==
                     SumSeq([k \in 1..(m.ooo_buffer_size - i + 1) |-> m.ooo_buffer[i + k - 1][2]])
                 hits == m.hits - hits_after_ts + hits_ooo_buffer
             IN  check_hits(m, ts, hits)

\* disorder_check without "- hits_after_ts"
disorder_check_keep_after(m, ts) ==
    LET found == {i \in 1..m.ooo_buffer_size :
                    /\ 0 < ts - m.ooo_buffer[i][1]
                    /\ ts - m.ooo_buffer[i][1] < m.w_size}
    IN  IF found = {} THEN m
        ELSE LET i == CHOOSE x \in found : \A y \in found : x <= y
                 hits_ooo_buffer ==
                     SumSeq([k \in 1..(m.ooo_buffer_size - i + 1) |-> m.ooo_buffer[i + k - 1][2]])
                 hits == m.hits + hits_ooo_buffer
             IN  check_hits(m, ts, hits)

disorder_check(m, ts) ==
    LET found == {i \in 1..m.ooo_buffer_size :
                    /\ 0 < ts - m.ooo_buffer[i][1]
                    /\ ts - m.ooo_buffer[i][1] < m.w_size}
    IN  IF found = {} THEN m
        ELSE LET i == CHOOSE x \in found : \A y \in found : x <= y
                 pos == index(m.ts_list, ts)
                 hits_after_ts ==
                     SumSeq([k \in 1..(Len(m.ts_list) - pos) |-> m.d[m.ts_list[pos + k]]])
                 hits_ooo_buffer ==
                     SumSeq([k \in 1..(m.ooo_buffer_size - i + 1) |-> m.ooo_buffer[i + k - 1][2]])
                 hits == m.hits - hits_after_ts + hits_ooo_buffer
             IN  check_hits(m, ts, hits)

RECURSIVE disorder_loop(_, _)
\* the for loop of check over a slice of _ts_list taken before the loop
disorder_loop(m, slice) ==
    IF slice = <<>> THEN m
    ELSE disorder_loop(disorder_check(m, Head(slice)), Tail(slice))

\* check without the final check_hits after the for loop
check_without_final(m, ts) ==
    LET m1 == evict(m) IN
    IF ~m1.warn /\ ts # Last(m1.ts_list)
    THEN IF ts \notin Range(m1.ts_list)
         THEN [m1 EXCEPT !.error = TRUE]
         ELSE LET pos == index(m1.ts_list, ts)
                  slice == SubSeq(m1.ts_list, pos, Len(m1.ts_list) - 1)
              IN  disorder_loop(m1, slice)
    ELSE check_hits(m1, Last(m1.ts_list), m1.hits)

\* check running the for loop whether or not the monitor is armed
check_ignoring_warn(m, ts) ==
    LET m1 == evict(m) IN
    IF ts # Last(m1.ts_list)
    THEN IF ts \notin Range(m1.ts_list)
         THEN [m1 EXCEPT !.error = TRUE]
         ELSE LET pos == index(m1.ts_list, ts)
                  slice == SubSeq(m1.ts_list, pos, Len(m1.ts_list) - 1)
                  m2 == disorder_loop(m1, slice)
              IN  check_hits(m2, Last(m2.ts_list), m2.hits)
    ELSE check_hits(m1, Last(m1.ts_list), m1.hits)

check(m, ts) ==
    LET m1 == evict(m) IN
    IF ~m1.warn /\ ts # Last(m1.ts_list)
    THEN IF ts \notin Range(m1.ts_list)
         THEN [m1 EXCEPT !.error = TRUE]     \* list.index(ts): ValueError
         ELSE LET pos == index(m1.ts_list, ts)
                  slice == SubSeq(m1.ts_list, pos, Len(m1.ts_list) - 1)
                  m2 == disorder_loop(m1, slice)
              IN  check_hits(m2, Last(m2.ts_list), m2.hits)
    ELSE check_hits(m1, Last(m1.ts_list), m1.hits)

TrafficMonitor_add(m, ts) ==
    LET m1 == [m EXCEPT
                 !.ts_list = IF ts \in Range(@) THEN @ ELSE insort(@, ts),
                 !.d       = IF ts \in DOMAIN @ THEN [@ EXCEPT ![ts] = @ + 1]
                                                ELSE (ts :> 1) @@ @,
                 !.hits    = @ + 1,
                 !.evals   = <<>>]
    IN  check(m1, ts)

(* ----------------------------- Statistics ------------------------------ *)
Sections == {"/api", "/report"}

\* Statistics.__init__; reports records the calls of report_handler, each
\* with the seconds (_ts_set) the reported sample was taken from
Statistics_init(period, debug) ==
    [d            |-> <<>>,
     ts_set       |-> {},
     period       |-> period,
     debug        |-> debug,
     overall_hits |-> 0,
     reports      |-> <<>>]

ts_exists(st, ts) == ts \in st.ts_set

ts_count(st) == Cardinality(st.ts_set)

RECURSIVE SumFun(_)
\* the total of a dictionary's values
SumFun(f) ==
    IF DOMAIN f = {} THEN 0
    ELSE LET k == CHOOSE x \in DOMAIN f : TRUE IN f[k] + SumFun(dict_pop(f, k))

\* reset clearing only the dictionary
reset_keep_ts(st) == [st EXCEPT !.d = <<>>]

\* reset clearing only the timestamp set
reset_keep_d(st) == [st EXCEPT !.ts_set = {}]

reset(st) == [st EXCEPT !.d = <<>>, !.ts_set = {}]

report(st) ==
    [st EXCEPT !.reports      = Append(@, [d |-> st.d, seconds |-> st.ts_set]),
               !.overall_hits = IF st.debug THEN @ + SumFun(st.d) ELSE @]

\* add flushing whenever the sample holds period seconds, known second or not
Statistics_add_flush_when_full(st, ts, section) ==
    LET st1 == IF ts_count(st) = st.period
               THEN reset(report(st))
               ELSE st
    IN  [st1 EXCEPT !.ts_set = @ \cup {ts},
                    !.d      = IF section \in DOMAIN @ THEN [@ EXCEPT ![section] = @ + 1]
                                                       ELSE (section :> 1) @@ @]

Statistics_add(st, ts, section) ==
    LET st1 == IF ~ts_exists(st, ts) /\ ts_count(st) = st.period
               THEN reset(report(st))
               ELSE st
    IN  [st1 EXCEPT !.ts_set = @ \cup {ts},
                    !.d      = IF section \in DOMAIN @ THEN [@ EXCEPT ![section] = @ + 1]
                                                       ELSE (section :> 1) @@ @]

(* --------------------------- HttpLogMonitor ---------------------------- *)
\* ts_now before the first record: Python's None
None == -1

\* the header line's column names
Header == <<"remotehost", "rfc931", "authuser", "date", "request", "status", "bytes">>

\* HttpLogMonitor.__init__, the fields other than statis and monitor
HttpLogMonitor_init(debug) ==
    [ts_now |-> None, col_list |-> <<>>, log_count |-> 0, debug |-> debug]

time_update(h, ts) ==
    IF h.ts_now = None THEN [h EXCEPT !.ts_now = ts]
    ELSE IF ts > h.ts_now THEN [h EXCEPT !.ts_now = ts] ELSE h

\* A data line, as far as feed_line looks at it: how many fields it splits
\* into, and whether int(date) and the request pattern succeed.
GoodLines ==
    [fields : {Len(Header)}, parses : {TRUE}, date : 0..MaxLineTs, section : Sections]

CorruptedLines ==
    [fields : {Len(Header) - 1}, parses : {TRUE}, date : {0}, section : {"/api"}]

UnparsableLines ==
    [fields : {Len(Header)}, parses : {FALSE}, date : {0}, section : {"/api"}]

(* ------------------------------- state --------------------------------- *)
VARIABLES
    mon,        \* the HttpLogMonitor: ts_now, col_list, log_count, debug
    statis,     \* HttpLogMonitor.statis, the Statistics
    monitor,    \* HttpLogMonitor.monitor, the TrafficMonitor
    pc,         \* the __main__ loop: "reading", or how it ended
    instant,    \* what instant_statis_report did: "not called", "reported", "TypeError"
    calls,      \* how many add calls (SpecMon, SpecStat) or data lines (Spec) so far
    recv,       \* recv[t]: how many times monitor.add(t) was called
    in_order,   \* every monitor.add so far had a timestamp >= all earlier ones
    late_count, \* how many monitor.add had a timestamp below an earlier one (2: two or more)
    late_by,    \* head - ts of the first such add
    too_late,   \* some monitor.add had a timestamp below the window of its time
    fed         \* the kind of the line feed_line was last called with

vars == <<mon, statis, monitor, pc, instant, calls, recv, in_order, late_count, late_by,
          too_late, fed>>

pipe_vars == <<mon, pc, instant>>

ghost_vars == <<recv, in_order, late_count, late_by, too_late>>

Received == SumSeq([k \in 1..Cardinality(LateTimestamps) |-> recv[k - 1]])

Seen == {t \in LateTimestamps : recv[t] > 0}

\* the largest timestamp received so far
Head_ == CHOOSE t \in Seen : \A u \in Seen : u <= t

\* the state before the first call, whatever the constructor's arguments
InitRun ==
    /\ pc = "reading"
    /\ instant = "not called"
    /\ calls = 0
    /\ recv = [t \in LateTimestamps |-> 0]
    /\ in_order = TRUE
    /\ late_count = 0
    /\ late_by = 0
    /\ too_late = FALSE
    /\ fed = "none"

\* what one monitor.add(ts) does to the observations of the run
Observe(ts) ==
    /\ recv' = [recv EXCEPT ![ts] = @ + 1]
    /\ LET late == Seen # {} /\ ts < Head_ IN
       /\ in_order' = (in_order /\ ~late)
       /\ late_count' = IF late /\ late_count < 2 THEN late_count + 1 ELSE late_count
       /\ late_by' = IF late /\ late_count = 0 THEN Head_ - ts ELSE late_by
       /\ too_late' = (too_late \/ (late /\ Head_ - ts > monitor.w_size - 1))

(* ------------------ SpecMon: the TrafficMonitor alone ------------------ *)
\* HttpLogMonitor(traffic_mon_size = w, critical_rate = r, ooo_buffer_size = o)
InitMon ==
    /\ mon = HttpLogMonitor_init(FALSE)
    /\ statis = Statistics_init(1, FALSE)
    /\ \E w \in 1..MaxWindow, r \in 1..MaxRate, o \in 0..MaxOoo :
           monitor = TrafficMonitor_init(w, r, o)
    /\ InitRun

\* one call monitor.add(ts); after an exception the caller's loop has ended
Add(ts) ==
    /\ ~monitor.error
    /\ calls < MaxHits
    /\ calls' = calls + 1
    /\ monitor' = TrafficMonitor_add(monitor, ts)
    /\ Observe(ts)
    /\ UNCHANGED <<statis, pipe_vars, fed>>

NextMon == \E ts \in Timestamps : Add(ts)

SpecMon == InitMon /\ [][NextMon]_vars

(* ---- SpecLate: the TrafficMonitor with the default OOO buffer size ---- *)
\* ooo_buffer_size when the constructor is not given one
DefaultOoo == 3

\* HttpLogMonitor(traffic_mon_size = LateWindow, critical_rate = MaxRate)
InitLate ==
    /\ mon = HttpLogMonitor_init(FALSE)
    /\ statis = Statistics_init(1, FALSE)
    /\ monitor = TrafficMonitor_init(LateWindow, MaxRate, DefaultOoo)
    /\ InitRun

\* one call monitor.add(ts) of a longer run
AddLate(ts) ==
    /\ ~monitor.error
    /\ calls < MaxLateAdds
    /\ calls' = calls + 1
    /\ monitor' = TrafficMonitor_add(monitor, ts)
    /\ Observe(ts)
    /\ UNCHANGED <<statis, pipe_vars, fed>>

NextLate == \E ts \in LateTimestamps : AddLate(ts)

SpecLate == InitLate /\ [][NextLate]_vars

(* -------------------- SpecStat: the Statistics alone ------------------- *)
\* HttpLogMonitor(statis_period = p, debug = debug)
InitStat ==
    /\ \E debug \in BOOLEAN :
          /\ mon = HttpLogMonitor_init(debug)
          /\ \E p \in 1..MaxPeriod : statis = Statistics_init(p, debug)
    /\ monitor = TrafficMonitor_init(1, 1, 0)
    /\ InitRun

\* one call statis.add(ts, section)
StatAdd(ts, section) ==
    /\ calls < MaxAdds
    /\ calls' = calls + 1
    /\ statis' = Statistics_add(statis, ts, section)
    /\ UNCHANGED <<monitor, pipe_vars, ghost_vars, fed>>

NextStat == \E ts \in 0..MaxLineTs, section \in Sections : StatAdd(ts, section)

SpecStat == InitStat /\ [][NextStat]_vars

(* ------------- Spec: the __main__ loop feeding HttpLogMonitor ---------- *)
\* HttpLogMonitor(statis_period = p, traffic_mon_size = w, critical_rate = MaxRate,
\*                ooo_buffer_size = MaxOoo, debug = debug)
Init ==
    /\ \E debug \in BOOLEAN :
          /\ mon = HttpLogMonitor_init(debug)
          /\ \E p \in 1..MaxPeriod : statis = Statistics_init(p, debug)
    /\ \E w \in 1..MaxLineWindow : monitor = TrafficMonitor_init(w, MaxRate, MaxOoo)
    /\ InitRun

\* the test of the field count in feed_line left out
field_count_differs_never(h, line) == FALSE

\* feed_line's test "len(fields) != len(self.col_list)"
field_count_differs(h, line) == line.fields # Len(h.col_list)

\* instant_statis_report without the test of self.debug
instant_statis_report_always(h, st) ==
    IF h.ts_now = None
    THEN [statis |-> st, instant |-> "TypeError"]
    ELSE [statis |-> report(st), instant |-> "reported"]

\* instant_statis_report, called from the finally clause when args.debug
instant_statis_report(h, st) ==
    IF h.debug
    THEN IF h.ts_now = None
         THEN [statis |-> st, instant |-> "TypeError"]    \* datetime.fromtimestamp(None)
         ELSE [statis |-> report(st), instant |-> "reported"]
    ELSE [statis |-> st, instant |-> "not called"]

\* the finally clause of __main__, with the monitor and statistics as they are
\* when the loop is left
Finally(h, st) ==
    /\ statis' = instant_statis_report(h, st).statis
    /\ instant' = instant_statis_report(h, st).instant

\* feed_line on the first line: the column names
FeedHeader ==
    /\ pc = "reading"
    /\ mon.col_list = <<>>
    /\ mon' = [mon EXCEPT !.col_list = Header]
    /\ fed' = "header"
    /\ UNCHANGED <<statis, monitor, pc, instant, calls, ghost_vars>>

\* feed_line on a data line, and the end of the loop when it raises
FeedLine(line) ==
    /\ pc = "reading"
    /\ mon.col_list # <<>>
    /\ calls < MaxLines
    /\ calls' = calls + 1
    /\ fed' = (IF line \in CorruptedLines THEN "corrupted"
                ELSE IF line \in UnparsableLines THEN "unparsable" ELSE "good")
    /\ LET h1 == [mon EXCEPT !.log_count = IF mon.debug THEN @ + 1 ELSE @] IN
       IF field_count_differs(h1, line)
       THEN \* 'Corrupted log line, ignore'
            /\ mon' = h1
            /\ UNCHANGED <<statis, monitor, pc, instant, ghost_vars>>
       ELSE IF ~line.parses
       THEN \* int(d['date']) or the request pattern raises
            /\ mon' = h1
            /\ pc' = "crashed"
            /\ Finally(h1, statis)
            /\ UNCHANGED <<monitor, ghost_vars>>
       ELSE LET h2 == time_update(h1, line.date)
                st == Statistics_add(statis, line.date, line.section)
                m  == TrafficMonitor_add(monitor, line.date)
            IN  /\ mon' = h2
                /\ monitor' = m
                /\ Observe(line.date)
                /\ IF m.error
                   THEN pc' = "crashed" /\ Finally(h2, st)
                   ELSE pc' = pc /\ statis' = st /\ instant' = instant

\* sys.stdin is exhausted
EndOfInput ==
    /\ pc = "reading"
    /\ pc' = "eof"
    /\ Finally(mon, statis)
    /\ UNCHANGED <<mon, monitor, calls, ghost_vars, fed>>

\* KeyboardInterrupt while waiting for a line
Interrupt ==
    /\ pc = "reading"
    /\ pc' = "interrupted"
    /\ Finally(mon, statis)
    /\ UNCHANGED <<mon, monitor, calls, ghost_vars, fed>>

Next ==
    \/ FeedHeader
    \/ \E line \in GoodLines \cup CorruptedLines \cup UnparsableLines : FeedLine(line)
    \/ EndOfInput
    \/ Interrupt

Spec == Init /\ [][Next]_vars

(* ------------------------ observations of a run ------------------------ *)
\* how many received timestamps lie in the window of m.w_size seconds ending at t
TrueHits(t) ==
    SumSeq([k \in 1..Cardinality(LateTimestamps) |->
              IF t - monitor.w_size < k - 1 /\ k - 1 <= t THEN recv[k - 1] ELSE 0])

\* the bag holding n1 times t1 and n2 times t2
Bag2(t1, n1, t2, n2) ==
    [t \in LateTimestamps |-> IF t = t1 THEN n1 ELSE IF t = t2 THEN n2 ELSE 0]

Raised(ts, hits) == alert(TRUE, ts, hits)

Cleared(ts, hits) == alert(FALSE, ts, hits)

(* -------------------------------- C1 ----------------------------------- *)
\* C1: while every insertion so far came in non-decreasing timestamp order,
\* the monitor's total hit count equals the number of inserted timestamps
\* within [head - windowSize + 1, head], head being the largest inserted.
C1_WindowExactness ==
    (in_order /\ Seen # {}) => monitor.hits = TrueHits(Head_)

\* in-order run in which buckets were evicted and several are retained
C1_Witness ==
    /\ in_order
    /\ Received > monitor.hits
    /\ Len(monitor.ts_list) >= 2
    /\ monitor.hits >= 3

(* -------------------------------- C2 ----------------------------------- *)
\* C2: every Raised carries a total > maxHits, every Cleared a total <= maxHits,
\* the transitions alternate Raised, Cleared, Raised, ... starting with Raised
\* (the armed flag being true exactly after a Raised), and an in-order run of
\* at most maxHits hits at t0 and at most maxHits hits at t0 + windowSize
\* emits no transition at all.
C2_Hysteresis ==
    /\ \A i \in DOMAIN monitor.alerts :
          /\ monitor.alerts[i].raised = (i % 2 = 1)
          /\ monitor.alerts[i].raised => monitor.alerts[i].hits > monitor.max
          /\ ~monitor.alerts[i].raised => monitor.alerts[i].hits <= monitor.max
    /\ monitor.warn = (Len(monitor.alerts) % 2 = 1)
    /\ \A t0 \in Timestamps, n1 \in 0..monitor.max, n2 \in 0..monitor.max :
          (in_order /\ t0 + monitor.w_size <= MaxTs
                    /\ recv = Bag2(t0, n1, t0 + monitor.w_size, n2))
              => monitor.alerts = <<>>

\* a run that raised, cleared and raised again
C2_Witness ==
    /\ Len(monitor.alerts) >= 3
    /\ monitor.warn

(* -------------------------------- C7 ----------------------------------- *)
\* C7: after maxHits + 1 hits at t0 and then k hits (1 <= k <= maxHits + 1) at
\* t0 + windowSize, the transitions are Raised at t0 with maxHits + 1, Cleared
\* at t0 + windowSize with total 1 (emitted by the first of the k hits), and,
\* once k = maxHits + 1, a second Raised at t0 + windowSize.
C7_ScenarioB ==
    \A t0 \in Timestamps, k \in 1..(monitor.max + 1) :
        (in_order /\ t0 + monitor.w_size <= MaxTs
                  /\ recv = Bag2(t0, monitor.max + 1, t0 + monitor.w_size, k))
            => monitor.alerts =
                  <<Raised(t0, monitor.max + 1), Cleared(t0 + monitor.w_size, 1)>>
                  \o (IF k = monitor.max + 1
                      THEN <<Raised(t0 + monitor.w_size, monitor.max + 1)>>
                      ELSE <<>>)

\* the end of scenario B: two full bursts one window apart, with a window of
\* at least two seconds
C7_Witness ==
    /\ in_order
    /\ monitor.w_size >= 2
    /\ \E t0 \in Timestamps :
          /\ t0 + monitor.w_size <= MaxTs
          /\ recv = Bag2(t0, monitor.max + 1, t0 + monitor.w_size, monitor.max + 1)
    /\ Len(monitor.alerts) = 3

(* -------------------------------- C10 ---------------------------------- *)
\* C10: whatever the arrival order, the largest retained timestamp minus the
\* smallest is at most windowSize - 1.
C10_WindowSpan ==
    monitor.ts_list # <<>> => window_size(monitor) <= monitor.w_size - 1

\* a full-span window after an out-of-order insertion and an eviction
C10_Witness ==
    /\ ~in_order
    /\ ~monitor.error
    /\ monitor.w_size >= 2
    /\ window_size(monitor) = monitor.w_size - 1
    /\ Received > monitor.hits

(* -------------------------------- C3 ----------------------------------- *)
RECURSIVE FeedSorted(_, _, _)
\* a monitor m fed n more hits at t and then every received hit above t, in
\* timestamp order
FeedSorted(m, t, n) ==
    IF n > 0 THEN FeedSorted(TrafficMonitor_add(m, t), t, n - 1)
    ELSE IF t >= MaxTs THEN m
    ELSE FeedSorted(m, t + 1, recv[t + 1])

\* the second monitor of the comparison: same configuration, fed the records
\* received so far sorted by timestamp
SortedMonitor ==
    FeedSorted([monitor EXCEPT !.ts_list = <<>>, !.d = <<>>, !.hits = 0, !.warn = FALSE,
                               !.ooo_buffer = [i \in 1..monitor.ooo_buffer_size |-> <<0, 0>>],
                               !.alerts = <<>>, !.error = FALSE],
               0, recv[0])

\* the transitions of a trace with their timestamps
Transitions(alerts) == [i \in DOMAIN alerts |-> <<alerts[i].raised, alerts[i].ts>>]

\* C3: when exactly one record arrived out of order, and it arrived at most
\* windowSize + oooMargin - 1 seconds behind the head, the monitor has emitted
\* the same Raised/Cleared transitions with the same timestamps as a monitor
\* fed the same records sorted by timestamp.
C3_BoundedCorrection ==
    (late_count = 1 /\ late_by <= monitor.w_size + monitor.ooo_buffer_size - 1)
        => /\ ~monitor.error
           /\ Transitions(monitor.alerts) = Transitions(SortedMonitor.alerts)

\* C3 for a record that is late but still inside the live window, so that its
\* insertion cannot raise ValueError
C3_BoundedCorrectionInWindow ==
    (late_count = 1 /\ late_by <= monitor.w_size - 1 /\ ~monitor.error)
        => Transitions(monitor.alerts) = Transitions(SortedMonitor.alerts)

(* -------------------------------- C5 ----------------------------------- *)
\* the state after maxHits hits at t0 and then one hit at t0 + windowSize
ScenarioC_Before(t0) ==
    /\ in_order
    /\ ~monitor.warn
    /\ t0 + monitor.w_size <= MaxTs
    /\ recv = Bag2(t0, monitor.max, t0 + monitor.w_size, 1)

\* the late hit at t0 + windowSize - 1 emits Raised there with maxHits + 1,
\* then Cleared at the head, and leaves the monitor unarmed
ScenarioC_LateHit(t0) ==
    recv' = [recv EXCEPT ![t0 + monitor.w_size - 1] = @ + 1]
        => /\ ~monitor'.error
           /\ ~monitor'.warn
           /\ Len(monitor'.alerts) = Len(monitor.alerts) + 2
           /\ monitor'.alerts[Len(monitor.alerts) + 1]
                  = Raised(t0 + monitor.w_size - 1, monitor.max + 1)
           /\ Transitions(monitor'.alerts)[Len(monitor.alerts) + 2]
                  = <<FALSE, t0 + monitor.w_size>>

\* C5 as stated, for every configuration: unarmed, after maxHits hits at t0
\* and one hit at t0 + windowSize, a late hit at t0 + windowSize - 1 emits
\* exactly Raised at t0 + windowSize - 1 with total maxHits + 1 and then
\* Cleared at t0 + windowSize, and the monitor ends unarmed.
C5_ScenarioC_AsStated ==
    [][\A t0 \in Timestamps : ScenarioC_Before(t0) => ScenarioC_LateHit(t0)]_vars

\* C5 (amended): the same, for a window of at least two seconds and an OOO
\* buffer of at least one entry.
C5_ScenarioC ==
    [][\A t0 \in Timestamps :
          (ScenarioC_Before(t0) /\ monitor.w_size >= 2 /\ monitor.ooo_buffer_size >= 1)
              => ScenarioC_LateHit(t0)]_vars

\* the end of scenario C
C5_Witness ==
    /\ monitor.w_size >= 2
    /\ monitor.ooo_buffer_size >= 1
    /\ late_count = 1
    /\ late_by = 1
    /\ \E t0 \in Timestamps :
          /\ t0 + monitor.w_size <= MaxTs
          /\ recv = [Bag2(t0, monitor.max, t0 + monitor.w_size, 1)
                        EXCEPT ![t0 + monitor.w_size - 1] = @ + 1]
          /\ monitor.alerts = <<Raised(t0 + monitor.w_size - 1, monitor.max + 1),
                                Cleared(t0 + monitor.w_size, 2)>>

(* -------------------------------- C6 ----------------------------------- *)
\* the buckets of the window [t - windowSize + 1, t] that the head has evicted
EvictedBuckets(t) == {u \in Seen : t - monitor.w_size < u /\ u <= Head_ - monitor.w_size}

\* an in-order run, a timestamp t behind the head and inside the live window,
\* k buckets of t's window evicted, and t's window holding maxHits hits
LedgerEdge_Before(t, k) ==
    /\ in_order
    /\ Seen # {}
    /\ t < Head_
    /\ t > Head_ - monitor.w_size
    /\ Cardinality(EvictedBuckets(t)) = k
    /\ TrueHits(t) = monitor.max

LateHit(t) == recv' = [recv EXCEPT ![t] = @ + 1]

EmitsRaisedThenCleared(t) ==
    monitor'.alerts = monitor.alerts
                        \o <<Raised(t, monitor.max + 1), Cleared(Head_, monitor'.hits)>>

EmitsNothing == monitor'.alerts = monitor.alerts

\* the two conditions of the amended claim: the live window, late hit
\* included, holds at most maxHits hits, and no bucket is retained strictly
\* between t and the head
LedgerEdge_Quiet(t) ==
    /\ TrueHits(Head_) + 1 <= monitor.max
    /\ \A u \in Seen : ~(t < u /\ u < Head_)

\* C6 as stated: with exactly oooMargin buckets of t's window evicted the late
\* hit at t emits Raised at t then Cleared at the head; with oooMargin + 1
\* evicted it emits nothing.
C6_LedgerEdge_AsStated ==
    [][\A t \in Timestamps :
          /\ (LedgerEdge_Before(t, monitor.ooo_buffer_size) /\ LateHit(t))
                => EmitsRaisedThenCleared(t)
          /\ (LedgerEdge_Before(t, monitor.ooo_buffer_size + 1) /\ LateHit(t))
                => EmitsNothing]_vars

\* C6 (amended): the same, provided the live window with the late hit holds at
\* most maxHits hits and no bucket is retained strictly between t and the head.
C6_LedgerEdge ==
    [][\A t \in Timestamps :
          /\ (LedgerEdge_Before(t, monitor.ooo_buffer_size)
                /\ LedgerEdge_Quiet(t) /\ LateHit(t))
                => EmitsRaisedThenCleared(t)
          /\ (LedgerEdge_Before(t, monitor.ooo_buffer_size + 1)
                /\ LedgerEdge_Quiet(t) /\ LateHit(t))
                => EmitsNothing]_vars

\* after the late hit of the first case, with an OOO buffer of two entries,
\* both needed by the reconstruction
C6_Witness ==
    /\ monitor.ooo_buffer_size = 2
    /\ late_count = 1
    /\ \E t \in Seen :
          /\ t < Head_
          /\ late_by = Head_ - t
          /\ Cardinality(EvictedBuckets(t)) = 2
          /\ TrueHits(t) = monitor.max + 1
          /\ monitor.alerts = <<Raised(t, monitor.max + 1), Cleared(Head_, monitor.hits)>>

\* after the late hit of the second case: a sorted feed raised, this one did not
C6_WitnessMissed ==
    /\ late_count = 1
    /\ monitor.ooo_buffer_size >= 1
    /\ \E t \in Seen :
          /\ t < Head_
          /\ late_by = Head_ - t
          /\ Cardinality(EvictedBuckets(t)) = monitor.ooo_buffer_size + 1
          /\ TrueHits(t) = monitor.max + 1
          /\ TrueHits(Head_) <= monitor.max
          /\ monitor.alerts = <<>>
          /\ SortedMonitor.alerts # <<>>

(* -------------------------------- C4 ----------------------------------- *)
\* a data line whose date is older than head - windowSize + 1 is being fed
TooLateFed(date) ==
    /\ pc = "reading"
    /\ Seen # {}
    /\ date < Head_ - monitor.w_size + 1
    /\ recv' = [recv EXCEPT ![date] = @ + 1]

\* the insert completes without an error, the statistics hold the record, no
\* transition is emitted, total and armed flag are as before
HandledSilently(date) ==
    /\ pc' = "reading"
    /\ ~monitor'.error
    /\ date \in statis'.ts_set
    /\ SumFun(statis'.d) >= 1
    /\ monitor'.alerts = monitor.alerts
    /\ monitor'.hits = monitor.hits
    /\ monitor'.warn = monitor.warn

\* C4: a too-late record is handled silently in every monitor state, armed or
\* unarmed.
C4_TooLate_AsStated ==
    [][\A date \in 0..MaxLineTs : TooLateFed(date) => HandledSilently(date)]_vars

\* C4 restricted to the armed monitor
C4_TooLate_WhileArmed ==
    [][\A date \in 0..MaxLineTs :
          (TooLateFed(date) /\ monitor.warn) => HandledSilently(date)]_vars

\* a too-late record was fed to an armed monitor
C4_WitnessArmed ==
    /\ monitor.warn
    /\ pc = "reading"
    /\ ~in_order
    /\ late_by >= monitor.w_size

(* -------------------------------- C8 ----------------------------------- *)
\* C8: every report emitted by the flush inside Statistics.add covers exactly
\* period distinct seconds, and the seconds held since the last flush never
\* exceed period.
C8_ReportBatching ==
    /\ \A i \in DOMAIN statis.reports :
          Cardinality(statis.reports[i].seconds) = statis.period
    /\ ts_count(statis) <= statis.period

\* a report flushed with a period of at least two seconds, the next batch
\* begun with a second older than one of the reported batch
C8_Witness ==
    /\ statis.period >= 2
    /\ Len(statis.reports) >= 1
    /\ \E t \in statis.ts_set, u \in statis.reports[1].seconds : t < u

(* -------------------------------- C9 ----------------------------------- *)
Terminated == pc # "reading"

\* the report instant_statis_report printed holds the accumulator as it is
FinalReportIsCurrent ==
    /\ statis.reports # <<>>
    /\ Last(statis.reports) = [d |-> statis.d, seconds |-> statis.ts_set]

\* C9 as stated: once the stream has terminated, a final report with the
\* current accumulator contents has been emitted, debug option on or off.
C9_FinalFlush_AsStated ==
    Terminated => (instant = "reported" /\ FinalReportIsCurrent)

\* C9 (amended): once the stream has terminated, the final report has been
\* emitted exactly when the debug option is on and a record has set ts_now,
\* and then it holds the current accumulator contents.
C9_FinalFlush ==
    Terminated =>
        /\ (instant = "reported") = (mon.debug /\ mon.ts_now # None)
        /\ instant = "reported" => FinalReportIsCurrent

\* an interrupted run with the debug option on: one periodic report, then the
\* final report of a partial batch
C9_Witness ==
    /\ pc = "interrupted"
    /\ mon.debug
    /\ instant = "reported"
    /\ Len(statis.reports) >= 2
    /\ ts_count(statis) < statis.period
    /\ statis.d # <<>>


(* ---------------------- C11: window bookkeeping ------------------------ *)
\* C11: after every add, whatever the arrival order, the retained timestamps
\* are strictly increasing, the buckets' keys are exactly those timestamps,
\* every bucket holds at least one hit, and hits is the sum of the buckets.
C11_Bookkeeping ==
    /\ \A i, j \in DOMAIN monitor.ts_list : i < j => monitor.ts_list[i] < monitor.ts_list[j]
    /\ DOMAIN monitor.d = Range(monitor.ts_list)
    /\ \A t \in DOMAIN monitor.d : monitor.d[t] >= 1
    /\ monitor.hits = SumFun(monitor.d)

\* a late record was inserted, a bucket was evicted, two buckets are retained
\* and one of them holds more than one hit
C11_Witness ==
    /\ ~monitor.error
    /\ ~in_order
    /\ Len(monitor.ts_list) >= 2
    /\ \E t \in DOMAIN monitor.d : monitor.d[t] >= 2
    /\ \E i \in DOMAIN monitor.ooo_buffer : monitor.ooo_buffer[i][2] >= 1

(* ---------------------- C12: malformed records ------------------------- *)
\* C12: a data line whose field count differs from the header's is dropped by
\* feed_line: ts_now, the statistics, the window, the OOO buffer and the warn
\* flag are as before, no report and no alert is emitted, and the loop goes
\* on reading with the same columns, so that the following lines are
\* processed as if the dropped one had not been there.
C12_MalformedDropped ==
    [][(fed' = "corrupted" /\ calls' = calls + 1) =>
          /\ mon'.ts_now = mon.ts_now
          /\ mon'.col_list = mon.col_list
          /\ statis' = statis
          /\ monitor' = monitor
          /\ ghost_vars' = ghost_vars
          /\ pc' = "reading"
          /\ instant' = instant]_vars

\* a malformed line was dropped while the monitor was armed, a report had
\* been emitted and a next batch was being collected
C12_Witness ==
    /\ fed = "corrupted"
    /\ pc = "reading"
    /\ monitor.warn
    /\ statis.reports # <<>>
    /\ statis.ts_set # {}

(* ------------------- C13: flush on a new second only ------------------- *)
\* the dictionary d with one more hit for section
Counted(d, section) ==
    IF section \in DOMAIN d THEN [d EXCEPT ![section] = @ + 1] ELSE (section :> 1) @@ d

\* C13: Statistics.add(ts, section) with ts already in the sample emits no
\* report and resets nothing, even when the sample holds period seconds; it
\* flushes exactly when ts is new and the sample holds period seconds, and
\* then the report shows the sample as it was before the call while the new
\* event is the first one of the next sample.
C13_FlushOnNewSecond ==
    [][\A ts \in 0..MaxLineTs, section \in Sections :
          (calls' = calls + 1 /\ statis' = Statistics_add(statis, ts, section)) =>
             LET flush == ts \notin statis.ts_set /\ Cardinality(statis.ts_set) = statis.period
             IN  IF flush
                 THEN /\ statis'.reports =
                            Append(statis.reports, [d |-> statis.d, seconds |-> statis.ts_set])
                      /\ statis'.ts_set = {ts}
                      /\ statis'.d = Counted(<<>>, section)
                 ELSE /\ statis'.reports = statis.reports
                      /\ statis'.ts_set = statis.ts_set \cup {ts}
                      /\ statis'.d = Counted(statis.d, section)]_vars

\* with a period of one second: a report was emitted, and since then two
\* events of the one second of the full sample were counted without a flush
C13_Witness ==
    /\ statis.period = 1
    /\ statis.reports # <<>>
    /\ Cardinality(statis.ts_set) = 1
    /\ SumFun(statis.d) >= 2

(* ------------------------ C14: the armed flag -------------------------- *)
\* the total of the most recent call of check_hits
LastEvaluated == Last(monitor.evals).hits

\* C14 as stated: after an add that evaluated the threshold, the monitor is
\* armed exactly when the most recent evaluation found a total >= maxHits
C14_ArmedAtMax_AsStated ==
    monitor.evals # <<>> => (monitor.warn <=> LastEvaluated >= monitor.max)

\* C14: after an add that evaluated the threshold, the monitor is armed
\* exactly when the most recent evaluation found a total strictly greater
\* than maxHits; a total equal to maxHits does not arm it.
C14_ArmedAboveMax ==
    monitor.evals # <<>> => (monitor.warn <=> LastEvaluated > monitor.max)

\* the most recent evaluation found exactly maxHits on an unarmed monitor
\* that had been armed and disarmed before
C14_Witness ==
    /\ monitor.evals # <<>>
    /\ LastEvaluated = monitor.max
    /\ ~monitor.warn
    /\ Len(monitor.alerts) >= 2

(* ------------------- C15: historical reconstruction -------------------- *)
\* the evaluations disorder_check made during the most recent add: all its
\* calls of check_hits but the final one at the head
Reconstructed ==
    IF Len(monitor.evals) <= 1 THEN <<>> ELSE SubSeq(monitor.evals, 1, Len(monitor.evals) - 1)

\* C15 as stated: every total disorder_check passes to check_hits for a
\* timestamp t equals the number of hits received so far in
\* [t - windowSize + 1, t], for any arrival order and any evictions
C15_ReconstructionExact_AsStated ==
    \A i \in DOMAIN Reconstructed : Reconstructed[i].hits = TrueHits(Reconstructed[i].ts)

\* C15: the total disorder_check passes to check_hits for a timestamp t
\* equals the number of hits received so far in [t - windowSize + 1, t]
\* whenever no record older than the live window has been inserted and at
\* most ooo_buffer_size buckets of that window have been evicted.
C15_ReconstructionExact ==
    \A i \in DOMAIN Reconstructed :
        (~too_late /\ Cardinality(EvictedBuckets(Reconstructed[i].ts)) <= monitor.ooo_buffer_size)
            => Reconstructed[i].hits = TrueHits(Reconstructed[i].ts)

\* two records came late, none older than the live window; a timestamp whose
\* window has lost a bucket to the OOO buffer was evaluated at its exact total
C15_Witness ==
    /\ ~too_late
    /\ late_count >= 2
    /\ \E i \in DOMAIN Reconstructed :
          /\ Cardinality(EvictedBuckets(Reconstructed[i].ts)) >= 1
          /\ Reconstructed[i].hits = TrueHits(Reconstructed[i].ts)
          /\ Reconstructed[i].hits > monitor.hits

(* -------------------------- C16: no false alarm ------------------------ *)
\* how many of the received timestamps r lie in the window of w seconds ending at t
HitsIn(r, w, t) ==
    SumSeq([k \in 1..Cardinality(LateTimestamps) |->
              IF t - w < k - 1 /\ k - 1 <= t THEN r[k - 1] ELSE 0])

\* C16: every Raised that an add emits at a timestamp t carries a total not
\* above the number of hits received so far in [t - windowSize + 1, t], and
\* no Raised is emitted for such a window holding at most maxHits hits,
\* whatever was inserted before.
C16_NoFalseAlarm ==
    [][\A i \in DOMAIN monitor'.alerts :
          (i > Len(monitor.alerts) /\ monitor'.alerts[i].raised) =>
              /\ monitor'.alerts[i].hits
                     <= HitsIn(recv', monitor.w_size, monitor'.alerts[i].ts)
              /\ HitsIn(recv', monitor.w_size, monitor'.alerts[i].ts) > monitor.max]_vars

(* ------------------------ C17: level consistency ----------------------- *)
\* C17: after every add, whatever disorder_check evaluated during the call,
\* the monitor is armed exactly when the live total hits is strictly greater
\* than maxHits.
C17_LevelConsistency ==
    monitor.warn <=> monitor.hits > monitor.max

\* disorder_check raised an alert for an earlier second during the last add,
\* and the final evaluation at the head cleared it again
C17_Witness ==
    /\ Reconstructed # <<>>
    /\ Len(monitor.alerts) >= 2
    /\ ~monitor.warn
    /\ ~Last(monitor.alerts).raised
    /\ Last(monitor.alerts).ts = Last(monitor.ts_list)
    /\ monitor.alerts[Len(monitor.alerts) - 1].raised
    /\ monitor.alerts[Len(monitor.alerts) - 1].ts = Reconstructed[1].ts

(* -------------------- C18: insertions while armed ---------------------- *)
\* the step is one call monitor.add(ts)
Adds(ts) == recv' = [recv EXCEPT ![ts] = @ + 1]

\* the last add made the alert handler emit a Cleared
EmitsCleared ==
    \E i \in DOMAIN monitor'.alerts : i > Len(monitor.alerts) /\ ~monitor'.alerts[i].raised

\* C18: an add(ts) with ts not greater than the head on an armed monitor,
\* too-late ones included, runs no reconstruction, emits no transition and
\* leaves the monitor armed; an add that emits a Cleared on an armed monitor
\* has a timestamp strictly greater than the head before it.
C18_ArmedBehindHead ==
    [][\A ts \in Timestamps :
          (monitor.warn /\ Adds(ts)) =>
              /\ ts <= Head_ =>
                    /\ ~monitor'.error
                    /\ Reconstructed' = <<>>
                    /\ monitor'.alerts = monitor.alerts
                    /\ monitor'.warn
              /\ EmitsCleared => ts > Head_]_vars

\* a record older than the live window was inserted into a monitor that was
\* armed and has not been cleared since
C18_Witness ==
    /\ too_late
    /\ ~monitor.error
    /\ monitor.warn
    /\ Len(monitor.alerts) = 1

(* ------------------------ C19: ledger ordering ------------------------- *)
\* the entries of the OOO buffer that are not the initial [0, 0]
RealEntries == SelectSeq(monitor.ooo_buffer, LAMBDA e : e[2] >= 1)

\* C19: the real entries of the OOO buffer have strictly increasing
\* timestamps from the oldest to the newest, and each of them is smaller
\* than the earliest timestamp retained in the window.
C19_LedgerOrdering ==
    /\ \A i, j \in DOMAIN RealEntries : i < j => RealEntries[i][1] < RealEntries[j][1]
    /\ \A i \in DOMAIN RealEntries :
          monitor.ts_list # <<>> => RealEntries[i][1] < monitor.ts_list[1]

(* ---------------------- C20: the [0, 0] entries ------------------------ *)
\* nothing has been evicted yet: the OOO buffer holds only its initial entries
OnlyDummies ==
    /\ monitor.ooo_buffer_size >= 1
    /\ \A i \in DOMAIN monitor.ooo_buffer : monitor.ooo_buffer[i] = <<0, 0>>

\* C20: while the OOO buffer holds only its initial [0, 0] entries, the
\* disorder checks of an add that match such an entry have no effect: the
\* totals they evaluate are within maxHits, they call the alert handler
\* never, and the only transition the add can emit is the one of the final
\* evaluation of the live total at the head.
C20_ZeroSentinel ==
    [][(OnlyDummies' /\ Reconstructed' # <<>>) =>
          /\ \A i \in DOMAIN Reconstructed' : Reconstructed'[i].hits <= monitor.max
          /\ Len(monitor'.alerts) <= Len(monitor.alerts) + 1
          /\ \A i \in DOMAIN monitor'.alerts :
                i > Len(monitor.alerts) =>
                    monitor'.alerts[i] = Raised(Last(monitor'.ts_list), monitor'.hits)]_vars

\* a late record matched an initial entry without effect, and the final
\* evaluation raised the alert for the live window
C20_Witness ==
    /\ OnlyDummies
    /\ Reconstructed # <<>>
    /\ monitor.alerts = <<Raised(Last(monitor.ts_list), monitor.max + 1)>>

(* -------------------- C21: statistics conservation --------------------- *)
\* the hits shown by the reports emitted so far, all sections together
ReportedHits == SumSeq([i \in DOMAIN statis.reports |-> SumFun(statis.reports[i].d)])

\* C21: after any sequence of Statistics.add calls, in any timestamp order,
\* the hits of all reports emitted so far plus the hits held in the
\* dictionary equal the number of events added: no event is reported twice
\* and none is lost by a reset.
C21_Conservation ==
    ReportedHits + SumFun(statis.d) = calls

\* two reports were emitted, the second one for an earlier second than the
\* first, one of them shows several hits, and several more are being collected
C21_Witness ==
    /\ Len(statis.reports) >= 2
    /\ \E t \in statis.reports[1].seconds, u \in statis.reports[2].seconds : u < t
    /\ \E i \in DOMAIN statis.reports : SumFun(statis.reports[i].d) >= 2
    /\ SumFun(statis.d) >= 2
=============================================================================
